---- MODULE Spec2Model ----
(***************************************************************************)
(* merge-dependabot (src/src/main.rs): one run of the job.  main walks the *)
(* configured repositories; for each one check_prs scans the open          *)
(* dependabot pull requests, classifies them and then approves and merges  *)
(* one and/or asks dependabot to rebase one.                               *)
(*                                                                         *)
(* Strings the code inspects character by character (repository strings,  *)
(* PR titles, versions) are sequences of one-character strings.  An        *)
(* Option<T> is the empty sequence (None) or a one-element sequence        *)
(* (Some).  Every remote call is one step whose outcome (success, failure, *)
(* the data returned) is chosen by the environment.                        *)
(*                                                                         *)
(* Spec is one run of main.  SpecRepo, SpecChecks and SpecParse apply one  *)
(* function of the code (the split of a repository string, the checks-pass *)
(* rule, parse_version_from_pr) to every argument of a bounded set.        *)
(* SpecLive repeats check_prs on one repository whose pull requests        *)
(* dependabot rebases when asked, under weak fairness.                     *)
(***************************************************************************)
EXTENDS Integers, Sequences, FiniteSets, TLC

\* ------------------------------------------------------------------ bounds

\* Longest configured repository list (Config.repos).
MaxRepos == 2
\* Most pull requests a repository holds on the remote.
MaxPRs == 2
\* Longest repository string the split is studied on.
MaxRepoLen == 4
\* Most check runs of a head commit the checks-pass rule is studied on.
MaxRuns == 3
\* Longest pre-release or build identifier of the versions the titles hold.
MaxIdLen == 1

\* ------------------------------------------------------- Option and strings

None == <<>>

Some(x) == <<x>>

IsSome(o) == o # <<>>

Unwrap(o) == o[1]

\* str::contains(char)
contains_char(s, c) == \E k \in 1..Len(s) : s[k] = c

Digits == {"0", "1", "2", "3", "4", "5", "6", "7", "8", "9"}

Letters ==
    {"a", "b", "c", "d", "e", "f", "g", "h", "i", "j", "k", "l", "m",
     "n", "o", "p", "q", "r", "s", "t", "u", "v", "w", "x", "y", "z",
     "A", "B", "C", "D", "E", "F", "G", "H", "I", "J", "K", "L", "M",
     "N", "O", "P", "Q", "R", "S", "T", "U", "V", "W", "X", "Y", "Z"}

\* The character class [a-zA-Z0-9\.] of the version pattern.
AlnumDot == Letters \cup Digits \cup {"."}

\* The character at position p of s, "" past the end.
At(s, p) == IF p >= 1 /\ p <= Len(s) THEN s[p] ELSE ""

\* The position after the longest run of characters of class cls that starts
\* at p (p itself when there is none): a greedy cls* .
RECURSIVE RunEnd(_, _, _)
RunEnd(s, p, cls) ==
    IF At(s, p) \in cls THEN RunEnd(s, p + 1, cls) ELSE p

\* ------------------------------------------------ parse_version_from_pr

\* The pattern \d+\.\d+\.\d+(-[a-zA-Z0-9\.]+)?(a0)?(\+[a-zA-Z0-9\.]+)? matched
\* at position p: the position after the match, 0 when it does not match.
\* Every part after the third number is optional and greedy, so the first
\* (greedy) way through the pattern is the match.
version_end(s, p) ==
    LET d1 == RunEnd(s, p, Digits)
        d2 == RunEnd(s, d1 + 1, Digits)
        d3 == RunEnd(s, d2 + 1, Digits)
        pre == RunEnd(s, d3 + 1, AlnumDot)
        e4 == IF At(s, d3) = "-" /\ pre > d3 + 1 THEN pre ELSE d3
        e5 == IF At(s, e4) = "a" /\ At(s, e4 + 1) = "0" THEN e4 + 2 ELSE e4
        bld == RunEnd(s, e5 + 1, AlnumDot)
        e6 == IF At(s, e5) = "+" /\ bld > e5 + 1 THEN bld ELSE e5
    IN  IF /\ d1 > p
           /\ At(s, d1) = "."
           /\ d2 > d1 + 1
           /\ At(s, d2) = "."
           /\ d3 > d2 + 1
        THEN e6
        ELSE 0

\* The start positions of a match of "to (<version>)" in the title.
to_version_starts(title) ==
    {p \in 1..Len(title) :
        /\ At(title, p) = "t"
        /\ At(title, p + 1) = "o"
        /\ At(title, p + 2) = " "
        /\ version_end(title, p + 3) # 0}

SetMin(S) == CHOOSE x \in S : \A y \in S : x <= y

\* Variant of parse_version_from_pr: the pattern without its leading "to ", so
\* the leftmost version of the title is taken.
parse_first_version(title) ==
    LET starts == {p \in 1..Len(title) : version_end(title, p) # 0}
    IN  IF starts = {}
        THEN None
        ELSE LET p == SetMin(starts)
             IN  Some(SubSeq(title, p, version_end(title, p) - 1))

\* fn parse_version_from_pr(title: &str) -> Option<String>: capture group 1 of
\* the leftmost match.
parse_version_from_pr(title) ==
    LET starts == to_version_starts(title)
    IN  IF starts = {}
        THEN None
        ELSE LET p == SetMin(starts)
             IN  Some(SubSeq(title, p + 3, version_end(title, p + 3) - 1))

\* ------------------------------------------------------------ configuration

\* The repository strings a configuration may hold: "o/r" names a repository,
\* "o" has no '/'.
RepoStrings == {<<"o", "/", "r">>, <<"o">>}

\* str::split(c), collected: the parts of s between the occurrences of c.
RECURSIVE split(_, _)
split(s, c) ==
    IF ~contains_char(s, c)
    THEN <<s>>
    ELSE LET j == SetMin({h \in 1..Len(s) : s[h] = c})
         IN  <<SubSeq(s, 1, j - 1)>> \o split(SubSeq(s, j + 1, Len(s)), c)

\* ------------------------------------------------------------- remote data

BotLogin == "dependabot[bot]"

\* pr.user of a listed pull request: Option<Author>, by login.
Users == {None, Some(BotLogin), Some("octocat")}

\* The pull requests of a repository on the remote, numbered 1, 2, ...
RemotePRLists ==
    UNION {[1..n -> [state : {"open", "closed"}, user : Users]] : n \in 0..MaxPRs}

\* pulls(org, repo).list().state(State::Open).send(): the open pull requests, in
\* the remote's order, each with its number and author.
list_open(remote) ==
    LET numbered == [n \in 1..Len(remote) |->
                        [number |-> n, state |-> remote[n].state, user |-> remote[n].user]]
        IsOpen(p) == p.state = "open"
    IN  SelectSeq(numbered, IsOpen)

\* The check runs of a head commit: the conclusion (Option<String>) of each run.
CheckRunSets == {<<>>, <<Some("success"), Some("failure")>>, <<None, Some("neutral")>>}

Shas == {"c1", "c2"}

\* What get_ref answers for the base branch: the object the reference points to.
BranchObjects ==
    {[kind |-> "Commit", sha |-> "c1"], [kind |-> "Tag", sha |-> "c2"],
     [kind |-> "Other", sha |-> "c1"]}

RebasingMarker == "Dependabot is rebasing this PR"

\* pr.body: Option<String>, a text as the sequence of its sentences.
Bodies == {None, Some(<<"Bumps x.">>), Some(<<"Bumps x.", RebasingMarker>>)}

BumpFrom == <<"B", "u", "m", "p", " ", "x", " ", "f", "r", "o", "m", " ">>

V123 == <<"1", ".", "2", ".", "3">>

V124 == <<"1", ".", "2", ".", "4">>

To == <<" ", "t", "o", " ">>

PlusBuild == <<"+", "b", "1">>

\* pr.title: "Bump x from 1.2.3 to 1.2.4" and "Bump x from 1.2.3 to 1.2.4+b1".
Titles ==
    {Some(BumpFrom \o V123 \o To \o V124),
     Some(BumpFrom \o V123 \o To \o V124 \o PlusBuild)}

\* pr.html_url of pull request n, when the remote gives one.
html_url_of(n) == "https://github.com/o/r/pull/" \o ToString(n)

\* ------------------------------------------------------------- the scanner

\* Variant of is_dependabot with map_or(true, ..): a pull request without author
\* counts as one of dependabot.
is_dependabot_any_author(pr) ==
    IF IsSome(pr.user) THEN Unwrap(pr.user) = BotLogin ELSE TRUE

\* .filter(|pr| pr.user.as_ref().map_or(false, |u| u.login == "dependabot[bot]"))
is_dependabot(pr) ==
    IF IsSome(pr.user) THEN Unwrap(pr.user) = BotLogin ELSE FALSE

\* Variant of all_checks_pass: every run must have concluded with success.
all_checks_succeeded(check_runs) ==
    \A j \in 1..Len(check_runs) : check_runs[j] = Some("success")

\* check_runs.iter().all(|c| c.conclusion != Some("failure".into()))
all_checks_pass(check_runs) ==
    \A j \in 1..Len(check_runs) : check_runs[j] # Some("failure")

\* pr.body.map_or(false, |b| b.contains("Dependabot is rebasing this PR"))
rebase_in_progress(body) ==
    IF IsSome(body)
    THEN \E j \in 1..Len(Unwrap(body)) : Unwrap(body)[j] = RebasingMarker
    ELSE FALSE

\* pr.title.and_then(|title| parse_version_from_pr(&title)).unwrap_or("")
new_version(title) ==
    LET v == IF IsSome(title) THEN parse_version_from_pr(Unwrap(title)) ELSE None
    IN  IF IsSome(v) THEN Unwrap(v) ELSE <<>>

\* The DependabotPr pushed for one pull request: version is new_version(title).
DependabotPr(o, r, number, html_url, check_runs, base_sha, base_branch_sha, body, version) ==
    [url |-> IF IsSome(html_url) THEN Unwrap(html_url) ELSE "",
     number |-> number,
     repo |-> [org |-> o, repo |-> r],
     all_checks_pass |-> all_checks_pass(check_runs),
     rebased |-> (base_sha = base_branch_sha),
     rebase_in_progress |-> rebase_in_progress(body),
     new_version |-> version]

\* ------------------------------------------------------------- the planner

\* Iterator::find: the first element of s at one of the positions hits (those
\* that satisfy the closure), as an Option.
Find(s, hits) == IF hits = {} THEN None ELSE Some(s[SetMin(hits)])

\* !pr.new_version.contains('+')
not_pre_release(pr) == ~contains_char(pr.new_version, "+")

\* Variant of any_rebase_in_progress that looks only at the pull requests the
\* pre-release filter keeps (the gate placed after the filter).
any_rebase_in_progress_after_filter(list) ==
    \E j \in 1..Len(list) : not_pre_release(list[j]) /\ list[j].rebase_in_progress

\* prs.iter().any(|pr| pr.rebase_in_progress), asked of the list as scanned.
any_rebase_in_progress(list) ==
    \E j \in 1..Len(list) : list[j].rebase_in_progress

\* Variant of filter_pre_release that keeps every pull request.
filter_nothing(list) == list

\* prs.into_iter().filter(|pr| !pr.new_version.contains('+')).collect()
filter_pre_release(list) == SelectSeq(list, not_pre_release)

\* Variant of find_mergeable that takes the last mergeable pull request (rfind).
find_last_mergeable(list) ==
    LET hits == {j \in 1..Len(list) : list[j].all_checks_pass /\ list[j].rebased}
    IN  IF hits = {} THEN None ELSE Some(list[CHOOSE j \in hits : \A h \in hits : h <= j])

\* prs.iter().find(|pr| pr.all_checks_pass && pr.rebased)
find_mergeable(list) ==
    Find(list, {j \in 1..Len(list) : list[j].all_checks_pass /\ list[j].rebased})

\* Variant of merge_result that returns the error of the merge call (the call
\* followed by `?`).
merge_result_propagating(p, put_ok) ==
    IF put_ok THEN [ok |-> TRUE, val |-> Some(p)] ELSE [ok |-> FALSE, val |-> None]

\* The value maybe_merge_one returns after the merge call, a
\* Result<Option<DependabotPr>>: Ok(Some(pr)) when the call succeeded, Ok(None)
\* when it failed.
merge_result(p, put_ok) ==
    IF put_ok THEN [ok |-> TRUE, val |-> Some(p)] ELSE [ok |-> TRUE, val |-> None]

\* Variant of after_merge that starts maybe_merge_one again when the merge call
\* failed.
after_merge_retrying(put_ok) == IF put_ok THEN "rebase" ELSE "merge_one"

\* Variant of after_merge that makes the merge call again when it failed.
after_merge_repeating(put_ok) == IF put_ok THEN "rebase" ELSE "merge"

\* Where control goes after the merge call: maybe_merge_one returns, whether the
\* call succeeded or failed, and check_prs goes on to the rebase.

after_merge(put_ok) == "rebase"

\* Variant of maybe_rebase that asks for a rebase only after a merge.
maybe_rebase_after_merge(list, m) ==
    IF IsSome(m)
    THEN Find(list, {j \in 1..Len(list) :
                        list[j].url # Unwrap(m).url /\ ~list[j].rebased})
    ELSE None

\* Variant of maybe_rebase that, without a merge, takes the first pull request
\* of the list whether it is rebased or not.
maybe_rebase_first(list, m) ==
    IF IsSome(m)
    THEN Find(list, {j \in 1..Len(list) :
                        list[j].url # Unwrap(m).url /\ ~list[j].rebased})
    ELSE Find(list, 1..Len(list))

\* Variant of maybe_rebase whose closure after a merge is negated.
maybe_rebase_inverted(list, m) ==
    IF IsSome(m)
    THEN Find(list, {j \in 1..Len(list) :
                        ~(list[j].url # Unwrap(m).url /\ ~list[j].rebased)})
    ELSE Find(list, {j \in 1..Len(list) : ~list[j].rebased})

\* The pull request check_prs asks dependabot to rebase:
\*   if let Some(merged) = .. { prs.iter().find(|pr| pr.url != merged.url && !pr.rebased) }
\*   else { prs.iter().find(|pr| !pr.rebased) }
maybe_rebase(list, m) ==
    IF IsSome(m)
    THEN Find(list, {j \in 1..Len(list) :
                        list[j].url # Unwrap(m).url /\ ~list[j].rebased})
    ELSE Find(list, {j \in 1..Len(list) : ~list[j].rebased})

\* Variant of main_handle that returns the error of check_prs from main.
main_handle_propagating(r) == IF r = "Ok" THEN "continue" ELSE "return"

\* What main does with the result of check_prs: an error is logged, and the loop
\* goes on either way.
main_handle(r) == "continue"

\* ------------------------------------------------------------------- state

\* main reads Config.repos front to back, once, and nothing depends on the
\* entries further on: cfg is the part of the list the loop has read, and the
\* environment says, each time the loop asks, what the next entry is or that the
\* list has ended.
VARIABLES
    cfg,        \* Config.repos, as far as the loop of main has read it
    pc,         \* the place control is at
    exit,       \* how the process ended: "running", "ok", "err", "panic"
    visited,    \* the positions in cfg that check_prs was called for, in order
    results,    \* what check_prs returned for each of them: "Ok" or "Err"
    repo,       \* dependabot_prs_passing_checks: the Repo split off the string
    listed,     \* the open pull requests the list call returned
    k,          \* the scan loop's position among the dependabot pull requests
    prs_state,  \* the DependabotPr vector the scan builds and returns
    prs,        \* check_prs: the list left after the pre-release filter
    pr,         \* maybe_merge_one: the pull request found, Option<DependabotPr>
    merged,     \* check_prs: what maybe_merge_one returned, Option<DependabotPr>
    calls,      \* the mutating remote calls of this check_prs, in order
    res,        \* the value check_prs returns: "Ok" or "Err:<the call that failed>"
    input,      \* a function studied on its own: the argument it is applied to
    output,     \* and the value it returned, None before the application
    github      \* a repository's pull requests on the remote, from run to run

vars ==
    <<cfg, pc, exit, visited, results, repo, listed, k, prs_state, prs, pr,
      merged, calls, res, input, output, github>>

\* What a run of main over freshly chosen remote answers leaves alone.
other_vars == <<input, output, github>>

main_vars == <<cfg, exit, visited, results>>

scan_vars == <<repo, listed, k, prs_state>>

plan_vars == <<prs, pr, merged, calls>>

NoRepo == [org |-> <<>>, repo |-> <<>>]

\* One mutating remote call: the review, the merge or the comment.
Call(op, p, ok) == [op |-> op, repo |-> p.repo, number |-> p.number, ok |-> ok]

\* The locals of check_prs and of the functions it calls, before it runs.
NoLocals ==
    /\ repo' = NoRepo
    /\ listed' = <<>>
    /\ k' = 0
    /\ prs_state' = <<>>
    /\ prs' = <<>>
    /\ pr' = None
    /\ merged' = None
    /\ calls' = <<>>
    /\ res' = ""

\* The process before main has read anything.
NotStarted ==
    /\ cfg = <<>>
    /\ exit = "running"
    /\ visited = <<>>
    /\ results = <<>>
    /\ repo = NoRepo
    /\ listed = <<>>
    /\ k = 0
    /\ prs_state = <<>>
    /\ prs = <<>>
    /\ pr = None
    /\ merged = None
    /\ calls = <<>>
    /\ res = ""

Init ==
    /\ NotStarted
    /\ pc = "main"
    /\ input = <<>>
    /\ output = None
    /\ github = <<>>

\* check_prs returns r to main.
Return(r) ==
    /\ res' = r
    /\ pc' = "ret"

\* The process dies of a panic.
Panic ==
    /\ pc' = "exit"
    /\ exit' = "panic"

\* -------------------------------------------------------------------- main

\* for repo in cfg.repos.iter() { check_prs(&octo, repo) .. }: the next entry
\* and the call.
main_call ==
    /\ pc = "main"
    /\ Len(cfg) < MaxRepos
    /\ \E s \in RepoStrings : cfg' = Append(cfg, s)
    /\ visited' = Append(visited, Len(cfg) + 1)
    /\ pc' = "scan"
    /\ UNCHANGED <<exit, results>>
    /\ UNCHANGED scan_vars
    /\ UNCHANGED plan_vars
    /\ UNCHANGED res
    /\ UNCHANGED other_vars

\* if let Err(e) = check_prs(..).await { error!(..) }, and on to the next entry.
main_result ==
    /\ pc = "ret"
    /\ results' = Append(results, IF res = "Ok" THEN "Ok" ELSE "Err")
    /\ IF main_handle(res) = "continue"
       THEN /\ pc' = "main"
            /\ exit' = exit
       ELSE /\ pc' = "exit"
            /\ exit' = "err"
    /\ NoLocals
    /\ UNCHANGED <<cfg, visited>>
    /\ UNCHANGED other_vars

\* The list has ended: Ok(()).
main_exit ==
    /\ pc = "main"
    /\ pc' = "exit"
    /\ exit' = "ok"
    /\ UNCHANGED <<cfg, visited, results, res>>
    /\ UNCHANGED scan_vars
    /\ UNCHANGED plan_vars
    /\ UNCHANGED other_vars

\* ------------------------------------------- dependabot_prs_passing_checks

\* The string check_prs was called with.
repo_str == cfg[Len(cfg)]

\* repo.split('/') and the two unwraps: the second one panics on a string
\* without '/'.
scan_split_panic ==
    /\ pc = "scan"
    /\ Len(split(repo_str, "/")) < 2
    /\ Panic
    /\ UNCHANGED <<cfg, visited, results, res>>
    /\ UNCHANGED scan_vars
    /\ UNCHANGED plan_vars
    /\ UNCHANGED other_vars

\* The list call fails: the scan returns the error, and check_prs with it.
scan_list_fail ==
    /\ pc = "scan"
    /\ Len(split(repo_str, "/")) >= 2
    /\ repo' = [org |-> split(repo_str, "/")[1], repo |-> split(repo_str, "/")[2]]
    /\ Return("Err:list")
    /\ UNCHANGED main_vars
    /\ UNCHANGED <<listed, k, prs_state>>
    /\ UNCHANGED plan_vars
    /\ UNCHANGED other_vars

\* The list call answers with the open pull requests of the repository.
scan_list ==
    /\ pc = "scan"
    /\ Len(split(repo_str, "/")) >= 2
    /\ repo' = [org |-> split(repo_str, "/")[1], repo |-> split(repo_str, "/")[2]]
    /\ \E remote \in RemotePRLists : listed' = list_open(remote)
    /\ k' = 1
    /\ pc' = "scan_pr"
    /\ UNCHANGED main_vars
    /\ UNCHANGED <<prs_state, res>>
    /\ UNCHANGED plan_vars
    /\ UNCHANGED other_vars

\* The dependabot pull requests among the listed ones: what the loop walks.
bot_prs == SelectSeq(listed, is_dependabot)

\* Variant of after_read_error: the failed read is tried again and the loop
\* goes on.
after_read_error_retrying == "scan_pr"

\* The `?` after each of the three reads of the loop body: an Err leaves the
\* scan, and the `?` in check_prs leaves check_prs with it.
after_read_error == "ret"

\* One of the three reads of the loop body fails: the scan returns the error.
scan_pr_fail ==
    /\ pc = "scan_pr"
    /\ k <= Len(bot_prs)
    /\ \E read \in {"check_runs", "get_ref", "get_pr"} : res' = "Err:" \o read
    /\ pc' = after_read_error
    /\ UNCHANGED main_vars
    /\ UNCHANGED scan_vars
    /\ UNCHANGED plan_vars
    /\ UNCHANGED other_vars

\* The base branch reference is neither a commit nor a tag: panic!.
scan_pr_panic ==
    /\ pc = "scan_pr"
    /\ k <= Len(bot_prs)
    /\ \E base_branch \in BranchObjects : base_branch.kind \notin {"Commit", "Tag"}
    /\ Panic
    /\ UNCHANGED <<cfg, visited, results, res>>
    /\ UNCHANGED scan_vars
    /\ UNCHANGED plan_vars
    /\ UNCHANGED other_vars

\* The loop body for one dependabot pull request: its check runs, the head of
\* its base branch and its detail are read, and its DependabotPr is pushed.
scan_pr ==
    /\ pc = "scan_pr"
    /\ k <= Len(bot_prs)
    /\ \E title \in Titles :
       LET version == new_version(title)
       IN  \E body \in Bodies, check_runs \in CheckRunSets :
           \E html_url \in {None, Some(html_url_of(bot_prs[k].number))} :
           \E base_branch \in BranchObjects, base_sha \in Shas :
              /\ base_branch.kind \in {"Commit", "Tag"}
              /\ prs_state' = Append(prs_state,
                                     DependabotPr(repo.org, repo.repo, bot_prs[k].number,
                                                  html_url, check_runs, base_sha,
                                                  base_branch.sha, body, version))
    /\ k' = k + 1
    /\ UNCHANGED main_vars
    /\ UNCHANGED <<repo, listed, pc, res>>
    /\ UNCHANGED plan_vars
    /\ UNCHANGED other_vars

\* --------------------------------------------------------------- check_prs

\* The scan is over and returns prs_state; then the empty list, the
\* rebase-in-progress gate and the pre-release filter.
check_prs_plan ==
    /\ pc = "scan_pr"
    /\ k > Len(bot_prs)
    /\ IF prs_state = <<>> \/ any_rebase_in_progress(prs_state)
       THEN /\ Return("Ok")
            /\ prs' = prs
       ELSE /\ prs' = filter_pre_release(prs_state)
            /\ pc' = "merge_one"
            /\ res' = res
    /\ UNCHANGED main_vars
    /\ UNCHANGED scan_vars
    /\ UNCHANGED <<pr, merged, calls>>
    /\ UNCHANGED other_vars

\* maybe_merge_one: no pull request is mergeable, Ok(None).
maybe_merge_one_none ==
    /\ pc = "merge_one"
    /\ find_mergeable(prs) = None
    /\ pr' = None
    /\ merged' = None
    /\ pc' = "rebase"
    /\ UNCHANGED main_vars
    /\ UNCHANGED scan_vars
    /\ UNCHANGED <<prs, calls, res>>
    /\ UNCHANGED other_vars

\* Variant of approve_result: the answer to the review call is dropped and the
\* merge goes ahead.
approve_result_discarded(post_ok) == TRUE

\* let _resp: IgnoreResp = octo.post(url, Some(&review_body)).await?: whether
\* maybe_merge_one goes on after the review call; on Err the `?` returns it.
approve_result(post_ok) == post_ok

\* maybe_merge_one: the first mergeable pull request is approved; a failed
\* approval is returned as the error of maybe_merge_one and of check_prs.
maybe_merge_one_approve ==
    /\ pc = "merge_one"
    /\ find_mergeable(prs) # None
    /\ pr' = find_mergeable(prs)
    /\ \E ok \in BOOLEAN :
          /\ calls' = Append(calls, Call("approve", Unwrap(find_mergeable(prs)), ok))
          /\ IF approve_result(ok)
             THEN /\ pc' = "merge"
                  /\ res' = res
             ELSE Return("Err:approve")
    /\ UNCHANGED main_vars
    /\ UNCHANGED scan_vars
    /\ UNCHANGED <<prs, merged>>
    /\ UNCHANGED other_vars

\* maybe_merge_one: the merge call; a failed merge is logged and gives Ok(None).
maybe_merge_one_merge ==
    /\ pc = "merge"
    /\ \E ok \in BOOLEAN :
          /\ calls' = Append(calls, Call("merge", Unwrap(pr), ok))
          /\ IF merge_result(Unwrap(pr), ok).ok
             THEN /\ merged' = merge_result(Unwrap(pr), ok).val
                  /\ pc' = after_merge(ok)
                  /\ res' = res
             ELSE /\ merged' = merged
                  /\ Return("Err:merge")
    /\ UNCHANGED main_vars
    /\ UNCHANGED scan_vars
    /\ UNCHANGED <<prs, pr>>
    /\ UNCHANGED other_vars

\* No pull request is to be rebased: Ok(()).
check_prs_no_rebase ==
    /\ pc = "rebase"
    /\ maybe_rebase(prs, merged) = None
    /\ Return("Ok")
    /\ UNCHANGED main_vars
    /\ UNCHANGED scan_vars
    /\ UNCHANGED plan_vars
    /\ UNCHANGED other_vars

\* The rebase comment is posted; a failed comment is the error of check_prs.
check_prs_rebase ==
    /\ pc = "rebase"
    /\ maybe_rebase(prs, merged) # None
    /\ \E ok \in BOOLEAN :
          /\ calls' = Append(calls, Call("comment", Unwrap(maybe_rebase(prs, merged)), ok))
          /\ Return(IF ok THEN "Ok" ELSE "Err:comment")
    /\ UNCHANGED main_vars
    /\ UNCHANGED scan_vars
    /\ UNCHANGED <<prs, pr, merged>>
    /\ UNCHANGED other_vars

\* ----------------------------------------------------------- specification

Next ==
    \/ main_call
    \/ main_result
    \/ main_exit
    \/ scan_split_panic
    \/ scan_list_fail
    \/ scan_list
    \/ scan_pr_fail
    \/ scan_pr_panic
    \/ scan_pr
    \/ check_prs_plan
    \/ maybe_merge_one_none
    \/ maybe_merge_one_approve
    \/ maybe_merge_one_merge
    \/ check_prs_no_rebase
    \/ check_prs_rebase

Spec == Init /\ [][Next]_vars

\* ------------------------------------------------------------ properties
\* calls and prs_state are those of the check_prs that is running or has just
\* returned (pc = "ret"); main drops them before the next repository.

\* The positions in calls of the calls of one kind.
CallIdx(op) == {j \in 1..Len(calls) : calls[j].op = op}

PrIdx == 1..Len(prs_state)

HasPlus(p) == \E h \in 1..Len(p.new_version) : p.new_version[h] = "+"

\* The pull requests of the scanned list that may be merged: no '+' in the
\* version, checks passing, rebased.
EligibleIdx ==
    {j \in PrIdx : /\ ~HasPlus(prs_state[j])
                   /\ prs_state[j].all_checks_pass
                   /\ prs_state[j].rebased}

\* The pull requests of the scanned list without '+' that are not rebased.
StaleIdx == {j \in PrIdx : ~HasPlus(prs_state[j]) /\ ~prs_state[j].rebased}

MergeFailed == \E j \in CallIdx("merge") : ~calls[j].ok

MergeSucceeded == \E j \in CallIdx("merge") : calls[j].ok

\* C1: when a pull request of the scanned list is being rebased, check_prs makes
\* no mutating call at all (no approval, no merge, no comment), whatever the
\* other fields of the pull requests are.
C1_SafetyGate ==
    (\E j \in PrIdx : prs_state[j].rebase_in_progress) => calls = <<>>

\* C1 witness: check_prs has returned without a call although one pull request
\* was mergeable and another, being rebased, carries a '+' version.
C1_Witness ==
    /\ pc = "ret"
    /\ res = "Ok"
    /\ calls = <<>>
    /\ EligibleIdx # {}
    /\ \E j \in PrIdx : prs_state[j].rebase_in_progress /\ HasPlus(prs_state[j])

\* C2: a pull request whose version contains '+' is never approved, merged or
\* asked to rebase.
C2_PreReleaseUntouched ==
    \A c \in 1..Len(calls) : \A j \in PrIdx :
        prs_state[j].number = calls[c].number => ~HasPlus(prs_state[j])

\* C2 witness: a run approved and merged the second pull request of the list
\* although the first one, with a '+' version, had passing checks and was
\* rebased.
C2_Witness ==
    /\ pc = "ret"
    /\ MergeSucceeded
    /\ \E j \in PrIdx : /\ HasPlus(prs_state[j])
                        /\ prs_state[j].all_checks_pass
                        /\ prs_state[j].rebased
                        /\ \A c \in 1..Len(calls) : prs_state[j].number < calls[c].number

\* C3: every approval and every merge call of a run is for the first pull
\* request, in list order, among those without '+' whose checks pass and that
\* are rebased; no other pull request is approved or merged.
C3_MergePriority ==
    \A c \in CallIdx("approve") \cup CallIdx("merge") :
        /\ EligibleIdx # {}
        /\ calls[c].number = prs_state[SetMin(EligibleIdx)].number

\* C3 witness: two pull requests were equally eligible, the first one was
\* approved and merged and the run is over.
C3_Witness ==
    /\ pc = "ret"
    /\ Cardinality(EligibleIdx) >= 2
    /\ MergeSucceeded
    /\ \A c \in 1..Len(calls) : calls[c].number = prs_state[SetMin(EligibleIdx)].number

\* C4: the pull request merged in a run is never the one asked to rebase in
\* that run.
C4_NoRebaseOfMerged ==
    \A m \in CallIdx("merge"), c \in CallIdx("comment") :
        calls[m].ok => calls[c].number # calls[m].number

\* C4 witness: a run that merged one pull request and posted a rebase comment.
C4_Witness ==
    /\ pc = "ret"
    /\ MergeSucceeded
    /\ CallIdx("comment") # {}

\* The pull requests that C5 says may be asked to rebase after the merge of m:
\* those other than m without '+' that are not rebased.
StaleOtherThan(m) == {j \in StaleIdx : prs_state[j].number # m.number}

\* C5: after a successful merge of A the rebase comment goes to the first pull
\* request in list order, other than A (by number), that is not rebased and has
\* no '+'; a comment is posted whenever there is one.
C5_RebaseAfterMerge ==
    (pc = "ret" /\ IsSome(merged)) =>
        IF StaleOtherThan(Unwrap(merged)) = {}
        THEN CallIdx("comment") = {}
        ELSE /\ Cardinality(CallIdx("comment")) = 1
             /\ \A c \in CallIdx("comment") :
                   calls[c].number =
                       prs_state[SetMin(StaleOtherThan(Unwrap(merged)))].number

\* C6 as stated: after an approval that succeeded and a merge that failed the
\* run is not aborted and the merge is not tried again, the rebase comment goes
\* to the first pull request (of those without '+') that is not rebased, if
\* any, and check_prs returns success.
C6_MergeRejectionAsStated ==
    (pc = "ret" /\ MergeFailed) =>
        /\ Cardinality(CallIdx("merge")) = 1
        /\ merged = None
        /\ res = "Ok"
        /\ IF StaleIdx = {}
           THEN CallIdx("comment") = {}
           ELSE /\ Cardinality(CallIdx("comment")) = 1
                /\ \A c \in CallIdx("comment") :
                      calls[c].number = prs_state[SetMin(StaleIdx)].number

\* C6 as amended: the same, except that check_prs returns success only if the
\* rebase comment, when one is posted, succeeds; a failed comment is the error
\* it returns.
C6_MergeRejection ==
    (pc = "ret" /\ MergeFailed) =>
        /\ Cardinality(CallIdx("merge")) = 1
        /\ Cardinality(CallIdx("approve")) = 1
        /\ merged = None
        /\ IF StaleIdx = {}
           THEN CallIdx("comment") = {} /\ res = "Ok"
           ELSE /\ Cardinality(CallIdx("comment")) = 1
                /\ \A c \in CallIdx("comment") :
                      /\ calls[c].number = prs_state[SetMin(StaleIdx)].number
                      /\ res = IF calls[c].ok THEN "Ok" ELSE "Err:comment"

\* C6 witness: the merge failed, another pull request was asked to rebase and
\* check_prs returned success.
C6_Witness ==
    /\ pc = "ret"
    /\ MergeFailed
    /\ res = "Ok"
    /\ \E c \in CallIdx("comment") : calls[c].ok

\* The pull requests a run approved or tried to merge.
MergeActionPrs == {calls[c].number : c \in CallIdx("approve") \cup CallIdx("merge")}

\* C7 as stated: a run performs at most one mutating action: it merges one pull
\* request, or asks one to rebase, or does nothing.
C7_SingleActionAsStated ==
    Cardinality(MergeActionPrs) + Cardinality(CallIdx("comment")) <= 1

\* C7 as amended: a run performs at most one merge action (the approval and the
\* merge of one pull request) and at most one rebase request; without a merge
\* action its only mutating call is the rebase comment.
C7_AtMostMergeAndRebase ==
    /\ Cardinality(MergeActionPrs) <= 1
    /\ Cardinality(CallIdx("comment")) <= 1
    /\ Len(calls) <= 3
    /\ MergeActionPrs = {} => Len(calls) <= 1

\* C7 witness: a run that merged one pull request and asked another to rebase.
C7_Witness ==
    /\ pc = "ret"
    /\ MergeSucceeded
    /\ \E c \in CallIdx("comment") : calls[c].number \notin MergeActionPrs

\* C8: a run makes at most one approval, at most one merge call and at most one
\* rebase comment for a repository, whatever the remote calls answer.
C8_PerRunBound ==
    \A op \in {"approve", "merge", "comment"} : Cardinality(CallIdx(op)) <= 1

\* C8 witness: a run that made all three calls, the merge having failed.
C8_Witness ==
    /\ pc = "ret"
    /\ MergeFailed
    /\ CallIdx("approve") # {}
    /\ CallIdx("comment") # {}

\* C9: an error of check_prs for one repository does not end the run: main
\* never returns an error, it has called check_prs once for every entry it has
\* read, in order, and when it exits every one of them has returned.
C9_FailureIsolation ==
    /\ exit \in {"running", "ok", "panic"}
    /\ visited = [j \in 1..Len(cfg) |-> j]
    /\ (exit = "ok" \/ pc = "main") => Len(results) = Len(cfg)
    /\ exit = "panic" => Len(results) = Len(cfg) - 1

\* C9 witness: check_prs failed for the first repository, ran for the second
\* one, and the process exited with success.
C9_Witness ==
    /\ exit = "ok"
    /\ Len(cfg) >= 2
    /\ results[1] = "Err"
    /\ results[2] = "Ok"

\* C10: every classified pull request, and so every pull request approved,
\* merged or asked to rebase, is one the list call returned as open with the
\* login of dependabot.
C10_OnlyBotPrs ==
    /\ \A j \in PrIdx : \E l \in 1..Len(listed) :
          /\ listed[l].number = prs_state[j].number
          /\ listed[l].state = "open"
          /\ listed[l].user = Some(BotLogin)
    /\ \A c \in 1..Len(calls) : \E l \in 1..Len(listed) :
          /\ listed[l].number = calls[c].number
          /\ listed[l].state = "open"
          /\ listed[l].user = Some(BotLogin)

\* C10 witness: a run that made a call while the list held an open pull
\* request without author.
C10_Witness ==
    /\ pc = "ret"
    /\ calls # <<>>
    /\ \E l \in 1..Len(listed) : listed[l].user = None

\* The errors the scan returns: the list call or one of the reads failed.
ScanErrors == {"Err:list", "Err:check_runs", "Err:get_ref", "Err:get_pr"}

\* C11: when a remote read of the scan fails, for the list or for any single
\* pull request, check_prs returns that error at once: the pull requests the
\* scan had already classified reach no planner step (no filtered list, no
\* candidate, no merged pull request), and no approval, merge or comment is
\* issued for the repository.
C11_ScanAllOrNothing ==
    res \in ScanErrors =>
        /\ pc = "ret"
        /\ calls = <<>>
        /\ prs = <<>>
        /\ pr = None
        /\ merged = None

\* A read fails for the second pull request after the first one was classified
\* as mergeable: the scan returns the error and nothing is called.
C11_Witness ==
    /\ pc = "ret"
    /\ res \in {"Err:check_runs", "Err:get_ref", "Err:get_pr"}
    /\ Len(bot_prs) = 2
    /\ Len(prs_state) = 1
    /\ prs_state[1].rebased /\ prs_state[1].all_checks_pass
    /\ ~prs_state[1].rebase_in_progress /\ ~HasPlus(prs_state[1])
    /\ calls = <<>>

\* ------------------------------------------------- the Repo of a string

\* The locals of main and of check_prs, which a function studied on its own
\* does not touch.
run_vars == <<cfg, exit, visited, results, repo, listed, k, prs_state, prs, pr,
              merged, calls, res>>

RepoChars == {"o", "r", "/"}

\* The strings a configuration entry may be, up to MaxRepoLen characters.
RepoInputs == UNION {[1..n -> RepoChars] : n \in 0..MaxRepoLen}

\* let mut repo_parts = repo.split('/'); Repo { org: next().unwrap(), repo:
\* next().unwrap() }: the first two parts, whatever they are; the second
\* unwrap panics when there is no second part. There is no Err outcome.
Repo(s) ==
    LET repo_parts == split(s, "/")
    IN  IF Len(repo_parts) < 2
        THEN [kind |-> "panic", org |-> <<>>, repo |-> <<>>]
        ELSE [kind |-> "Repo", org |-> repo_parts[1], repo |-> repo_parts[2]]

InitRepo ==
    /\ NotStarted
    /\ pc = "Repo"
    /\ input \in RepoInputs
    /\ output = None
    /\ github = <<>>

\* The first three statements of dependabot_prs_passing_checks on the string.
split_repo ==
    /\ pc = "Repo"
    /\ output' = Some(Repo(input))
    /\ pc' = "done"
    /\ UNCHANGED run_vars
    /\ UNCHANGED <<input, github>>

NextRepo == split_repo

SpecRepo == InitRepo /\ [][NextRepo]_vars

\* C12: a repository string gives a Repo only when both parts, before and
\* after the '/', are non-empty; any other string gives an error of that
\* repository, neither a Repo with an empty part nor a panic that ends the run.
C12_RepositoryRef ==
    (pc = "done" /\ IsSome(output)) =>
        LET r == Unwrap(output)
            parts == split(input, "/")
            well_formed == Len(parts) = 2 /\ parts[1] # <<>> /\ parts[2] # <<>>
        IN  /\ r.kind # "panic"
            /\ r.kind = "Repo" => (r.org # <<>> /\ r.repo # <<>>)
            /\ ~well_formed => r.kind = "Err"

\* ---------------------------------------------------- the checks-pass rule

\* CheckRun.conclusion: Option<String>; None while the run is in progress.
Conclusions ==
    {None, Some("failure"), Some("success"), Some("neutral"), Some("skipped"),
     Some("timed_out")}

\* The check runs of a head commit, up to MaxRuns of them.
CheckRunInputs == UNION {[1..n -> Conclusions] : n \in 0..MaxRuns}

InitChecks ==
    /\ NotStarted
    /\ pc = "all_checks_pass"
    /\ input \in CheckRunInputs
    /\ output = None
    /\ github = <<>>

\* let all_checks_pass = check_runs.check_runs.iter().all(..) on the runs read.
compute_all_checks_pass ==
    /\ pc = "all_checks_pass"
    /\ output' = Some(all_checks_pass(input))
    /\ pc' = "done"
    /\ UNCHANGED run_vars
    /\ UNCHANGED <<input, github>>

NextChecks == compute_all_checks_pass

SpecChecks == InitChecks /\ [][NextChecks]_vars

\* The conclusions the runs of the commit have reached.
Reached(check_runs) ==
    {Unwrap(check_runs[j]) : j \in {h \in 1..Len(check_runs) : IsSome(check_runs[h])}}

\* C14: all_checks_pass is true exactly when "failure" is not among the
\* conclusions of the commit's check runs: no runs at all give true, and runs
\* without a conclusion or with any other conclusion never make it false.
C14_ChecksPassRule ==
    (pc = "done" /\ IsSome(output)) =>
        /\ Unwrap(output) = ("failure" \notin Reached(input))
        /\ input = <<>> => Unwrap(output) = TRUE
        /\ Reached(input) \subseteq {"neutral", "skipped", "timed_out", "success"}
              => Unwrap(output) = TRUE

\* Two rules were applied: a run in progress next to a neutral and a timed-out
\* one passes, and a failure next to a success does not.
C14_Witness ==
    /\ pc = "done"
    /\ \/ /\ output = Some(TRUE)
          /\ input = <<None, Some("neutral"), Some("timed_out")>>
       \/ /\ output = Some(FALSE)
          /\ input = <<Some("success"), Some("failure"), Some("success")>>

\* --------------------------------------------------- the version of a title

IdChars == {"a", "0", "."}

\* The identifiers after '-' and after '+': [a-zA-Z0-9\.]+, up to MaxIdLen long.
Idents == UNION {[1..n -> IdChars] : n \in 1..MaxIdLen}

\* The versions the pattern describes: MAJOR.MINOR.PATCH, then optionally
\* '-' and an identifier, optionally "a0", optionally '+' and an identifier.
Versions ==
    {core \o pre \o a0 \o build :
        core \in {V124},
        pre \in {<<>>} \cup {<<"-">> \o i : i \in Idents},
        a0 \in {<<>>, <<"a", "0">>},
        build \in {<<>>} \cup {<<"+">> \o i : i \in Idents}}

\* The versions bumped from.
FromVersions == {V123, V123 \o <<"a", "0">> \o PlusBuild, V124 \o <<"-", "r", "c">>}

\* "Bump proto from ": a package name that ends in "to".
BumpProtoFrom ==
    <<"B", "u", "m", "p", " ", "p", "r", "o", "t", "o", " ", "f", "r", "o", "m", " ">>

InDir == <<" ", "i", "n", " ", "/", "d">>

\* Titles dependabot writes, "Bump X from V1 to V2" and the same with a
\* directory after it, each with the versions it was built from.
BumpTitles ==
    {[title |-> bump \o v1 \o To \o v2 \o dir, from |-> Some(v1), target |-> Some(v2)] :
        bump \in {BumpFrom, BumpProtoFrom}, v1 \in FromVersions, v2 \in Versions,
        dir \in {<<>>, InDir}}

\* Titles without "to " and a version after it: no title text, a version of
\* two numbers, a version with a 'v' before it, no "to " before the version.
OtherTitles ==
    {[title |-> t, from |-> None, target |-> None] :
        t \in {<<>>,
               <<"F", "i", "x", " ", "t", "o", " ", "d", "o">>,
               BumpFrom \o <<"1", ".", "2">> \o To \o <<"1", ".", "3">>,
               BumpFrom \o <<"v", "1">> \o To \o <<"v">> \o V124,
               BumpFrom \o V123,
               <<"t", "o">> \o V124}}

InitParse ==
    /\ NotStarted
    /\ pc = "parse_version_from_pr"
    /\ input \in BumpTitles \cup OtherTitles
    /\ output = None
    /\ github = <<>>

\* parse_version_from_pr(title) on the title.
call_parse_version_from_pr ==
    /\ pc = "parse_version_from_pr"
    /\ output' = Some(parse_version_from_pr(input.title))
    /\ pc' = "done"
    /\ UNCHANGED run_vars
    /\ UNCHANGED <<input, github>>

NextParse == call_parse_version_from_pr

SpecParse == InitParse /\ [][NextParse]_vars

\* C15: parse_version_from_pr returns the version that follows the first "to "
\* of the title that has a version after it, character for character: for
\* "Bump X from V1 to V2" that is V2 whole, with its '+build' part, and never
\* V1; for a title without "to " and a version it returns None.
C15_VersionExtractor ==
    (pc = "done" /\ IsSome(output)) =>
        /\ Unwrap(output) = input.target
        /\ (IsSome(input.from) /\ input.from # input.target)
              => Unwrap(output) # input.from

\* A title whose two versions both have a build part was parsed: the target
\* came back whole.
C15_Witness ==
    /\ pc = "done"
    /\ IsSome(output)
    /\ input.from = Some(V123 \o <<"a", "0">> \o PlusBuild)
    /\ IsSome(input.target)
    /\ contains_char(Unwrap(input.target), "+")
    /\ contains_char(Unwrap(input.target), "-")
    /\ Unwrap(output) = input.target

\* The scan went through and check_prs has returned.
ScanDone == pc = "ret" /\ res \notin ScanErrors

\* C16 as stated: the gate looks only at the pull requests without '+', so a
\* run in which none of those is being rebased and one of them is mergeable
\* approves one, even when a pull request with '+' is being rebased.
C16_FilterThenGateAsStated ==
    (/\ ScanDone
     /\ ~\E j \in PrIdx : ~HasPlus(prs_state[j]) /\ prs_state[j].rebase_in_progress
     /\ EligibleIdx # {})
        => CallIdx("approve") # {}

\* C16, amended: the gate looks at the whole scanned list, before the filter.
\* A run approves a pull request exactly when no pull request at all, with or
\* without '+', is being rebased and one without '+' is mergeable, and the
\* merge is attempted when the approval succeeded; a pull request with '+'
\* that is being rebased stops the run like any other.
C16_GateThenFilter ==
    ScanDone =>
        /\ CallIdx("approve") # {}
              <=> (/\ EligibleIdx # {}
                   /\ ~\E j \in PrIdx : prs_state[j].rebase_in_progress)
        /\ (\E a \in CallIdx("approve") : calls[a].ok) => CallIdx("merge") # {}

\* The only pull request being rebased carries a '+' version and stands after
\* a mergeable one: the run ended without approving anything.
C16_Witness ==
    /\ ScanDone
    /\ Len(prs_state) = 2
    /\ 1 \in EligibleIdx
    /\ HasPlus(prs_state[2]) /\ prs_state[2].rebase_in_progress
    /\ ~prs_state[1].rebase_in_progress
    /\ CallIdx("approve") = {}

\* C17: a merge call is made only after an approval of the same pull request
\* succeeded in the same run; the rebase comment comes after every approval and
\* merge call of the run, and after the merge call when an approval succeeded;
\* a failed approval is the only call of its run, which returns it as the
\* repository's error.
C17_ApproveThenMerge ==
    /\ \A m \in CallIdx("merge") :
          \E a \in CallIdx("approve") :
             /\ a < m
             /\ calls[a].ok
             /\ calls[a].number = calls[m].number
             /\ calls[a].repo = calls[m].repo
    /\ \A c \in CallIdx("comment") :
          /\ \A j \in CallIdx("approve") \cup CallIdx("merge") : j < c
          /\ \A a \in CallIdx("approve") :
                calls[a].ok => \E m \in CallIdx("merge") : a < m /\ m < c
    /\ \A a \in CallIdx("approve") :
          ~calls[a].ok => /\ Len(calls) = 1
                          /\ pc = "ret"
                          /\ res = "Err:approve"

\* The approval of a mergeable pull request failed while another pull request
\* was waiting for a rebase: the run ended with that one call and the error.
C17_Witness ==
    /\ pc = "ret"
    /\ res = "Err:approve"
    /\ Len(calls) = 1
    /\ calls[1].op = "approve" /\ ~calls[1].ok
    /\ EligibleIdx # {}
    /\ StaleIdx # {}

\* C18: the pull request a rebase comment goes to is one of the scanned list
\* that is not rebased, is not being rebased and has no '+' version; when the
\* run merged nothing it is the first pull request without '+' that is not
\* rebased. A rebased pull request never gets the comment.
C18_RebaseTarget ==
    \A c \in CallIdx("comment") :
        /\ \E j \in PrIdx : prs_state[j].number = calls[c].number
        /\ \A j \in PrIdx :
              prs_state[j].number = calls[c].number
                 => /\ ~prs_state[j].rebased
                    /\ ~prs_state[j].rebase_in_progress
                    /\ ~HasPlus(prs_state[j])
        /\ ~MergeSucceeded
              => /\ StaleIdx # {}
                 /\ calls[c].number = prs_state[SetMin(StaleIdx)].number

\* Nothing was approved or merged, the first pull request of the list is
\* rebased (its checks fail), and the comment went to the second one.
C18_Witness ==
    /\ pc = "ret"
    /\ Len(prs_state) = 2
    /\ prs_state[1].rebased /\ ~prs_state[1].all_checks_pass
    /\ ~HasPlus(prs_state[1])
    /\ Len(calls) = 1
    /\ calls[1].op = "comment"
    /\ calls[1].number = prs_state[2].number

\* ------------------------------------------------- runs that are repeated
\* The job is run again and again on one repository, "o/r", whose pull
\* requests are all dependabot's, carry no '+' version and have passing
\* checks; every remote call succeeds. github holds the head of the base
\* branch (the number of merges so far) and, for each pull request, whether it
\* is open, its html_url, the base commit it was last rebased on, whether
\* dependabot is rebasing it and whether a rebase comment is waiting.

\* The pull requests the repository starts with: n of them, each up to date
\* with the base branch (base 0) or behind it (base -1).
LivePrs(n) ==
    {[j \in 1..n |->
        [number |-> j,
         open |-> TRUE,
         html_url |-> IF f[j].has_url THEN Some(html_url_of(j)) ELSE None,
         base |-> f[j].base,
         rebasing |-> f[j].rebasing,
         requested |-> FALSE]] :
     f \in [1..n -> [has_url : BOOLEAN, base : {-1, 0}, rebasing : BOOLEAN]]}

InitLive ==
    /\ NotStarted
    /\ pc = "live_scan"
    /\ input = <<>>
    /\ output = None
    /\ github \in {[head |-> 0, prs |-> p] : p \in UNION {LivePrs(n) : n \in 1..MaxPRs}}

is_open(p) == p.open

\* new_version of every pull request: its title is "Bump x from 1.2.3 to 1.2.4".
live_version == new_version(Some(BumpFrom \o V123 \o To \o V124))

\* dependabot_prs_passing_checks on the repository as it is now: the
\* DependabotPr of every open pull request, from what the remote holds.
live_classified ==
    LET open_prs == SelectSeq(github.prs, is_open)
    IN  [j \in 1..Len(open_prs) |->
            DependabotPr(<<"o">>, <<"r">>, open_prs[j].number, open_prs[j].html_url,
                         <<Some("success"), Some("neutral")>>,
                         open_prs[j].base, github.head,
                         IF open_prs[j].rebasing
                         THEN Some(<<"Bumps x.", RebasingMarker>>)
                         ELSE Some(<<"Bumps x.">>),
                         live_version)]

\* The remote after the merge of m (an Option): the pull request is closed and
\* the head of the base branch moves on, away from the base of the others.
after_merge_of(g, m) ==
    IF IsSome(m)
    THEN [head |-> g.head + 1,
          prs |-> [j \in DOMAIN g.prs |->
                      IF g.prs[j].number = Unwrap(m).number
                      THEN [g.prs[j] EXCEPT !.open = FALSE]
                      ELSE g.prs[j]]]
    ELSE g

\* The remote after "@dependabot rebase" was posted on r (an Option).
after_comment_on(g, r) ==
    IF IsSome(r)
    THEN [g EXCEPT !.prs = [j \in DOMAIN g.prs |->
                               IF g.prs[j].number = Unwrap(r).number
                               THEN [g.prs[j] EXCEPT !.requested = TRUE]
                               ELSE g.prs[j]]]
    ELSE g

\* A run starts: check_prs scans the repository.
live_scan ==
    /\ pc = "live_scan"
    /\ prs_state' = live_classified
    /\ pc' = "live_plan"
    /\ UNCHANGED <<cfg, exit, visited, results, repo, listed, k, prs, pr, merged,
                   calls, res>>
    /\ UNCHANGED other_vars

\* The rest of check_prs on the scanned list, every call succeeding: the gate,
\* the filter, maybe_merge_one and the rebase comment; then the run is over.
live_plan ==
    /\ pc = "live_plan"
    /\ IF prs_state = <<>> \/ any_rebase_in_progress(prs_state)
       THEN github' = github
       ELSE LET list == filter_pre_release(prs_state)
                found == find_mergeable(list)
                m == IF IsSome(found) /\ approve_result(TRUE)
                     THEN merge_result(Unwrap(found), TRUE).val
                     ELSE None
            IN  github' = after_comment_on(after_merge_of(github, m), maybe_rebase(list, m))
    /\ prs_state' = <<>>
    /\ pc' = "live_scan"
    /\ UNCHANGED <<cfg, exit, visited, results, repo, listed, k, prs, pr, merged,
                   calls, res>>
    /\ UNCHANGED <<input, output>>

\* dependabot takes up the rebase comment on pull request n and marks the
\* pull request as being rebased.
bot_start_rebase(n) ==
    /\ n \in DOMAIN github.prs
    /\ github.prs[n].open
    /\ github.prs[n].requested
    /\ ~github.prs[n].rebasing
    /\ github' = [github EXCEPT !.prs[n].requested = FALSE, !.prs[n].rebasing = TRUE]
    /\ UNCHANGED run_vars
    /\ UNCHANGED <<pc, input, output>>

\* dependabot has rebased pull request n on the head of the base branch and
\* takes its mark away.
bot_finish_rebase(n) ==
    /\ n \in DOMAIN github.prs
    /\ github.prs[n].open
    /\ github.prs[n].rebasing
    /\ github' = [github EXCEPT !.prs[n].rebasing = FALSE, !.prs[n].base = github.head]
    /\ UNCHANGED run_vars
    /\ UNCHANGED <<pc, input, output>>

NextLive ==
    \/ live_scan
    \/ live_plan
    \/ \E n \in 1..MaxPRs : bot_start_rebase(n)
    \/ \E n \in 1..MaxPRs : bot_finish_rebase(n)

\* The job is run again and again, and dependabot gets to every rebase that is
\* asked of it and through every rebase it has begun.
FairLive ==
    /\ WF_vars(live_scan)
    /\ WF_vars(live_plan)
    /\ \A n \in 1..MaxPRs : WF_vars(bot_start_rebase(n))
    /\ \A n \in 1..MaxPRs : WF_vars(bot_finish_rebase(n))

SpecLive == InitLive /\ [][NextLive]_vars /\ FairLive

AllMerged == \A j \in DOMAIN github.prs : ~github.prs[j].open

\* C19: when the job is run again and again on a repository whose pull
\* requests have no '+' version and passing checks, every call succeeds and
\* dependabot carries out the rebases asked of it, every pull request is merged
\* in the end: the runs never stop acting while one is still open.
C19_Progress == <>AllMerged

\* Two pull requests, one of them without html_url, were both merged.
C19_Witness ==
    /\ Len(github.prs) = 2
    /\ github.head = 2
    /\ AllMerged
    /\ \E j \in 1..2 : github.prs[j].html_url = None

====
